---- MODULE Spec2Model ----
(***************************************************************************)
(* BriPlanner task store (server.js): the in-memory forest of tasks, the   *)
(* REST handlers that create, update and remove tasks and checklist items, *)
(* and the asynchronous email reminder handler.                            *)
(*                                                                         *)
(* Values.  A uuid is modelled by a positive integer, the n-th uuid issued *)
(* by uuidv4(); the integer 0 stands for the empty string "" (a falsy id   *)
(* a client may send).  A timestamp is the clock reading in milliseconds   *)
(* (toISOString of equal-width dates orders as the readings do).  A value  *)
(* that may be undefined or null is a sequence of length at most one:      *)
(* <<>> is undefined/null and <<v>> is the value v.                        *)
(***************************************************************************)
EXTENDS Integers, Sequences, FiniteSets

\* ---- bounds of the model ----
MaxIds == 3        \* uuids issued by uuidv4() in one run
MaxTime == 2       \* last clock reading that still advances
MaxInflight == 2   \* email requests suspended at an await at the same time
MaxReq == 4        \* requests the clients send in one run
MaxSiblings == 2   \* leaf tasks in one children list of a drawn task list
MaxItems == 5      \* items of a checklist the page renders

VARIABLES tasks, clock, nextId, cachedTestAccount, inflight, req, res, before, nreq, chain,
          accountCalls, progressPercent

vars == <<tasks, clock, nextId, cachedTestAccount, inflight, req, res, before, nreq, chain,
          accountCalls, progressPercent>>

Null == <<>>

\* ---- inputs a client may send ----
ClientIds == 1..MaxIds            \* the :id, :taskId and :itemId of a path
Opt(S) == {Null} \cup {<<v>> : v \in S}
ParentIds == Opt(0..MaxIds)       \* parentId of a body: absent, "", or an id
Titles == {"", "A"}
Recipients == {"", "a@x"}
ClientItems == {[id |-> 1, text |-> "x", completed |-> FALSE]}
ClientChecklists == {<<>>} \cup {<<i>> : i \in ClientItems}
ClientReminders == {Null}

\* JavaScript truthiness of the values above: "" and undefined are falsy,
\* the id 0 stands for "".
FalsyStrUndefinedOnly(opt) == opt = Null
FalsyStr(opt) == opt = Null \/ opt[1] = ""
\* a parentId never counts as given
FalsyIdAlways(opt) == TRUE
FalsyId(opt) == opt = Null \/ opt[1] = 0

\* new Date(): a reading d milliseconds after the reading t, on a clock that
\* never goes backwards.
Later(t, d) == IF t + d > MaxTime THEN MaxTime ELSE t + d
Now(d) == Later(clock, d)
\* A handler runs within one millisecond boundary: tick names the reading of
\* the handler (its n-th new Date()) that first sees the next millisecond,
\* 0 when none does.
Tick(tick, n) == IF tick = n THEN 1 ELSE 0

\* ---- helpers of server.js ----

RECURSIVE findTaskById(_, _)
findTaskById(id, taskList) ==
    IF taskList = <<>> THEN Null
    ELSE LET task == Head(taskList)
         IN  IF task.id = id THEN <<task>>
             ELSE LET found == IF Len(task.children) > 0
                               THEN findTaskById(id, task.children)
                               ELSE Null
                  IN  IF found # Null THEN found
                      ELSE findTaskById(id, Tail(taskList))

\* The place of the object findTaskById returns: the indices leading to it
\* from the top-level list (the handlers mutate the returned object in place).
RECURSIVE findPathFrom(_, _, _)
findPathFrom(id, taskList, i) ==
    IF i > Len(taskList) THEN Null
    ELSE IF taskList[i].id = id THEN <<i>>
         ELSE LET found == IF Len(taskList[i].children) > 0
                           THEN findPathFrom(id, taskList[i].children, 1)
                           ELSE Null
              IN  IF found # Null THEN <<i>> \o found
                  ELSE findPathFrom(id, taskList, i + 1)

findPath(id, taskList) == findPathFrom(id, taskList, 1)

\* The forest after the object at path has been mutated into newTask.
RECURSIVE replaceAt(_, _, _)
replaceAt(taskList, path, newTask) ==
    IF Len(path) = 1
    THEN [taskList EXCEPT ![path[1]] = newTask]
    ELSE [taskList EXCEPT ![path[1]].children =
              replaceAt(taskList[path[1]].children, Tail(path), newTask)]

\* The forest after an in-place mutation of the task found under id.
mutate(id, newTask) == replaceAt(tasks, findPath(id, tasks), newTask)

\* Array.prototype.splice(i, 1)
spliceNothing(list, i) == list
\* splice(i, 2): the next element goes too
spliceAlsoNext(list, i) == SubSeq(list, 1, i - 1) \o SubSeq(list, i + 2, Len(list))
splice(list, i) == SubSeq(list, 1, i - 1) \o SubSeq(list, i + 1, Len(list))

\* splice(i) without a count: the rest of the list goes with the task
RECURSIVE removeLoopToEnd(_, _, _)
removeLoopToEnd(id, taskList, i) ==
    IF i > Len(taskList) THEN [removed |-> FALSE, list |-> taskList]
    ELSE IF taskList[i].id = id
         THEN [removed |-> TRUE, list |-> SubSeq(taskList, 1, i - 1)]
         ELSE LET sub == IF Len(taskList[i].children) > 0
                         THEN removeLoopToEnd(id, taskList[i].children, 1)
                         ELSE [removed |-> FALSE, list |-> taskList[i].children]
              IN  IF sub.removed
                  THEN [removed |-> TRUE,
                        list |-> [taskList EXCEPT ![i].children = sub.list]]
                  ELSE removeLoopToEnd(id, taskList, i + 1)

\* splice(i, 1, ...children): the children take the place of the task
RECURSIVE removeLoopPromote(_, _, _)
removeLoopPromote(id, taskList, i) ==
    IF i > Len(taskList) THEN [removed |-> FALSE, list |-> taskList]
    ELSE IF taskList[i].id = id
         THEN [removed |-> TRUE,
               list |-> SubSeq(taskList, 1, i - 1) \o taskList[i].children
                          \o SubSeq(taskList, i + 1, Len(taskList))]
         ELSE LET sub == IF Len(taskList[i].children) > 0
                         THEN removeLoopPromote(id, taskList[i].children, 1)
                         ELSE [removed |-> FALSE, list |-> taskList[i].children]
              IN  IF sub.removed
                  THEN [removed |-> TRUE,
                        list |-> [taskList EXCEPT ![i].children = sub.list]]
                  ELSE removeLoopPromote(id, taskList, i + 1)

\* the children are searched before the task's own id is compared
RECURSIVE removeLoopChildrenFirst(_, _, _)
removeLoopChildrenFirst(id, taskList, i) ==
    IF i > Len(taskList) THEN [removed |-> FALSE, list |-> taskList]
    ELSE LET sub == IF Len(taskList[i].children) > 0
                    THEN removeLoopChildrenFirst(id, taskList[i].children, 1)
                    ELSE [removed |-> FALSE, list |-> taskList[i].children]
         IN  IF sub.removed
             THEN [removed |-> TRUE,
                   list |-> [taskList EXCEPT ![i].children = sub.list]]
             ELSE IF taskList[i].id = id
                  THEN [removed |-> TRUE, list |-> splice(taskList, i)]
                  ELSE removeLoopChildrenFirst(id, taskList, i + 1)

RECURSIVE removeLoop(_, _, _)
removeLoop(id, taskList, i) ==
    IF i > Len(taskList) THEN [removed |-> FALSE, list |-> taskList]
    ELSE IF taskList[i].id = id
         THEN [removed |-> TRUE, list |-> splice(taskList, i)]
         ELSE LET sub == IF Len(taskList[i].children) > 0
                         THEN removeLoop(id, taskList[i].children, 1)
                         ELSE [removed |-> FALSE, list |-> taskList[i].children]
              IN  IF sub.removed
                  THEN [removed |-> TRUE,
                        list |-> [taskList EXCEPT ![i].children = sub.list]]
                  ELSE removeLoop(id, taskList, i + 1)

\* return true where the function falls off its loop
removeTaskByIdAlwaysTrue(id, taskList) ==
    [removed |-> TRUE, list |-> removeLoop(id, taskList, 1).list]
removeTaskById(id, taskList) == removeLoop(id, taskList, 1)

\* Array.prototype.findIndex(i => i.id === itemId), 0 for -1
RECURSIVE findIndexFrom(_, _, _)
findIndexFrom(checklist, itemId, k) ==
    IF k > Len(checklist) THEN 0
    ELSE IF checklist[k].id = itemId THEN k
         ELSE findIndexFrom(checklist, itemId, k + 1)

\* the index of the last item whatever the id
findIndexLast(checklist, itemId) == Len(checklist)
findIndex(checklist, itemId) == findIndexFrom(checklist, itemId, 1)

\* ---- the handlers of server.js ----
\* req is the request the last step served, res its response: the HTTP status
\* (0 while the handler is suspended at an await) and the id of the entity in
\* the response body (0 when the body names none).  before is the forest as it
\* was when that step began.
Respond(status, out) == [status |-> status, out |-> out]

store == <<tasks, clock, nextId, cachedTestAccount, inflight>>

\* calls of nodemailer.createTestAccount() made so far, and whether one rejected
NoCalls == [made |-> 0, rejected |-> FALSE]

NoChain == [stage |-> 0, task |-> 0, item |-> 0, advanced |-> TRUE, kept |-> TRUE]

Init ==
    /\ tasks = <<>>
    /\ clock = 0
    /\ nextId = 1
    /\ cachedTestAccount = Null
    /\ inflight = <<>>
    /\ req = [op |-> "none"]
    /\ res = Respond(0, 0)
    /\ before = <<>>
    /\ nreq = 0
    /\ chain = NoChain
    /\ accountCalls = NoCalls
    /\ progressPercent = Null

\* ---- observer of the scenario "add an item to an empty checklist, mark it
\* completed, remove it", three requests in a row on one task ----
ChecklistOf(id, forest) == findTaskById(id, forest)[1].checklist
UpdatedAtOf(id, forest) == findTaskById(id, forest)[1].updatedAt

ChainStep(stage, task, item, sofar) ==
    [stage |-> stage, task |-> task, item |-> item,
     advanced |-> sofar.advanced /\ UpdatedAtOf(task, tasks') > UpdatedAtOf(task, tasks),
     kept |-> sofar.kept /\ UpdatedAtOf(task, tasks') >= UpdatedAtOf(task, tasks)]

Observe ==
    chain' =
        IF req'.op = "addItem" /\ res'.status = 201
           /\ Len(ChecklistOf(req'.id, tasks)) = 0
        THEN ChainStep(1, req'.id, res'.out, NoChain)
        ELSE IF chain.stage = 1 /\ req'.op = "updateItem" /\ res'.status = 200
                /\ req'.id = chain.task /\ req'.item = chain.item
                /\ req'.body.completed = <<TRUE>>
        THEN ChainStep(2, chain.task, chain.item, chain)
        ELSE IF chain.stage = 2 /\ req'.op = "removeItem" /\ res'.status = 200
                /\ req'.id = chain.task /\ req'.item = chain.item
        THEN ChainStep(3, chain.task, chain.item, chain)
        ELSE NoChain

\* a request arrives: its handler runs up to its response or its first await
Arrive ==
    /\ nreq < MaxReq
    /\ nreq' = nreq + 1
    /\ before' = tasks
    /\ UNCHANGED progressPercent

\* a suspended email request resumes after its await
Wake ==
    /\ before' = tasks
    /\ UNCHANGED <<nreq, progressPercent>>

\* GET /api/tasks/:id
Get(id) ==
    /\ Arrive
    /\ UNCHANGED accountCalls
    /\ /\ req' = [op |-> "get", id |-> id]
       /\ res' = IF findTaskById(id, tasks) = Null THEN Respond(404, 0) ELSE Respond(200, id)
       /\ UNCHANGED store
    /\ Observe

\* every task gets the id of the first one
newTaskOfSameId(id, title, description, createdAt, updatedAt) ==
    [id |-> 1,
     title |-> title[1],
     description |-> IF FalsyStr(description) THEN "" ELSE description[1],
     completed |-> FALSE,
     checklist |-> <<>>,
     children |-> <<>>,
     emailReminder |-> Null,
     createdAt |-> createdAt,
     updatedAt |-> updatedAt]

\* the object literal of POST /api/tasks
newTaskOf(id, title, description, createdAt, updatedAt) ==
    [id |-> id,
     title |-> title[1],
     description |-> IF FalsyStr(description) THEN "" ELSE description[1],
     completed |-> FALSE,
     checklist |-> <<>>,
     children |-> <<>>,
     emailReminder |-> Null,
     createdAt |-> createdAt,
     updatedAt |-> updatedAt]

\* unshift in place of push
pushChildFirst(parentTask, newTask, now) ==
    [parentTask EXCEPT !.children = <<newTask>> \o @, !.updatedAt = now]

\* parentTask.children.push(newTask); parentTask.updatedAt = new Date()
pushChild(parentTask, newTask, now) ==
    [parentTask EXCEPT !.children = Append(@, newTask), !.updatedAt = now]

\* POST /api/tasks
Create(title, description, parentId, tick) ==
    /\ Arrive
    /\ UNCHANGED accountCalls
    /\ LET createdAt == Now(Tick(tick, 1))
           updatedAt == Later(createdAt, Tick(tick, 2))
           parentAt  == Later(updatedAt, Tick(tick, 3))
           newTask == newTaskOf(nextId, title, description, createdAt, updatedAt)
       IN  /\ req' = [op |-> "create", title |-> title, description |-> description,
                      parentId |-> parentId]
           /\ IF FalsyStr(title)
              THEN /\ res' = Respond(400, 0)
                   /\ UNCHANGED store
              ELSE /\ nextId <= MaxIds
                   /\ IF ~FalsyId(parentId)
                      THEN LET parentTask == findTaskById(parentId[1], tasks)
                           IN  IF parentTask = Null
                               THEN /\ res' = Respond(404, 0)
                                    /\ UNCHANGED <<tasks, clock, nextId>>
                               ELSE /\ tasks' = mutate(parentId[1],
                                           pushChild(parentTask[1], newTask, parentAt))
                                    /\ clock' = parentAt
                                    /\ nextId' = nextId + 1
                                    /\ res' = Respond(201, nextId)
                      ELSE /\ tasks' = Append(tasks, newTask)
                           /\ clock' = updatedAt
                           /\ nextId' = nextId + 1
                           /\ res' = Respond(201, nextId)
                   /\ UNCHANGED <<cachedTestAccount, inflight>>
    /\ Observe

\* task.updatedAt = task.createdAt in place of the clock reading
applyUpdateStale(task, body, now) ==
    LET t1 == IF body.title # Null THEN [task EXCEPT !.title = body.title[1]] ELSE task
        t3 == IF body.completed # Null
              THEN [t1 EXCEPT !.completed = body.completed[1]] ELSE t1
    IN  [t3 EXCEPT !.updatedAt = task.createdAt]

\* the completed field of the body is dropped
applyUpdateNoCompleted(task, body, now) ==
    LET t1 == IF body.title # Null THEN [task EXCEPT !.title = body.title[1]] ELSE task
    IN  [t1 EXCEPT !.updatedAt = now]

\* updatedAt is refreshed only when the body carries a field
applyUpdateOnlyOnChange(task, body, now) ==
    LET t1 == IF body.title # Null THEN [task EXCEPT !.title = body.title[1]] ELSE task
        t2 == IF body.description # Null
              THEN [t1 EXCEPT !.description = body.description[1]] ELSE t1
        t3 == IF body.completed # Null
              THEN [t2 EXCEPT !.completed = body.completed[1]] ELSE t2
        t4 == IF body.checklist # Null
              THEN [t3 EXCEPT !.checklist = body.checklist[1]] ELSE t3
        t5 == IF body.emailReminder # Null
              THEN [t4 EXCEPT !.emailReminder = body.emailReminder[1]] ELSE t4
    IN  IF t5 = task THEN task ELSE [t5 EXCEPT !.updatedAt = now]

\* the update also restamps createdAt
applyUpdateRestampsCreatedAt(task, body, now) ==
    LET t1 == IF body.title # Null THEN [task EXCEPT !.title = body.title[1]] ELSE task
        t3 == IF body.completed # Null
              THEN [t1 EXCEPT !.completed = body.completed[1]] ELSE t1
    IN  [t3 EXCEPT !.createdAt = now, !.updatedAt = now]

\* the assignments of PUT /api/tasks/:id
applyUpdate(task, body, now) ==
    LET t1 == IF body.title # Null THEN [task EXCEPT !.title = body.title[1]] ELSE task
        t2 == IF body.description # Null
              THEN [t1 EXCEPT !.description = body.description[1]] ELSE t1
        t3 == IF body.completed # Null
              THEN [t2 EXCEPT !.completed = body.completed[1]] ELSE t2
        t4 == IF body.checklist # Null
              THEN [t3 EXCEPT !.checklist = body.checklist[1]] ELSE t3
        t5 == IF body.emailReminder # Null
              THEN [t4 EXCEPT !.emailReminder = body.emailReminder[1]] ELSE t4
    IN  [t5 EXCEPT !.updatedAt = now]

\* PUT /api/tasks/:id
Update(id, body, d) ==
    /\ Arrive
    /\ UNCHANGED accountCalls
    /\ LET task == findTaskById(id, tasks)
       IN  /\ req' = [op |-> "update", id |-> id, body |-> body]
           /\ IF task = Null
              THEN /\ res' = Respond(404, 0)
                   /\ UNCHANGED store
              ELSE /\ tasks' = mutate(id, applyUpdate(task[1], body, Now(d)))
                   /\ clock' = Now(d)
                   /\ res' = Respond(200, id)
                   /\ UNCHANGED <<nextId, cachedTestAccount, inflight>>
    /\ Observe

\* DELETE /api/tasks/:id
Remove(id) ==
    /\ Arrive
    /\ UNCHANGED accountCalls
    /\ LET removed == removeTaskById(id, tasks)
       IN  /\ req' = [op |-> "remove", id |-> id]
           /\ tasks' = removed.list
           /\ res' = IF removed.removed THEN Respond(200, 0) ELSE Respond(404, 0)
           /\ UNCHANGED <<clock, nextId, cachedTestAccount, inflight>>
    /\ Observe

\* the new item starts completed
checklistItemOfCompleted(id, text) == [id |-> id, text |-> text[1], completed |-> TRUE]

\* the object literal of POST /api/tasks/:id/checklist
checklistItemOf(id, text) == [id |-> id, text |-> text[1], completed |-> FALSE]

\* the text is validated before the task is looked up
AddItemValidatesFirst(id, text, d) ==
    /\ Arrive
    /\ UNCHANGED accountCalls
    /\ LET task == findTaskById(id, tasks)
       IN  /\ req' = [op |-> "addItem", id |-> id, text |-> text]
           /\ IF FalsyStr(text)
              THEN /\ res' = Respond(400, 0)
                   /\ UNCHANGED store
              ELSE IF task = Null
              THEN /\ res' = Respond(404, 0)
                   /\ UNCHANGED store
              ELSE /\ nextId <= MaxIds
                   /\ tasks' = mutate(id, [task[1] EXCEPT
                                   !.checklist = Append(@, checklistItemOf(nextId, text)),
                                   !.updatedAt = Now(d)])
                   /\ clock' = Now(d)
                   /\ nextId' = nextId + 1
                   /\ res' = Respond(201, nextId)
                   /\ UNCHANGED <<cachedTestAccount, inflight>>
    /\ Observe

\* POST /api/tasks/:id/checklist
AddItem(id, text, d) ==
    /\ Arrive
    /\ UNCHANGED accountCalls
    /\ LET task == findTaskById(id, tasks)
       IN  /\ req' = [op |-> "addItem", id |-> id, text |-> text]
           /\ IF task = Null
              THEN /\ res' = Respond(404, 0)
                   /\ UNCHANGED store
              ELSE IF FalsyStr(text)
              THEN /\ res' = Respond(400, 0)
                   /\ UNCHANGED store
              ELSE /\ nextId <= MaxIds
                   /\ tasks' = mutate(id, [task[1] EXCEPT
                                   !.checklist = Append(@, checklistItemOf(nextId, text)),
                                   !.updatedAt = Now(d)])
                   /\ clock' = Now(d)
                   /\ nextId' = nextId + 1
                   /\ res' = Respond(201, nextId)
                   /\ UNCHANGED <<cachedTestAccount, inflight>>
    /\ Observe

\* completed is set whether or not the body carries it
applyItemUpdateCompletes(item, body) ==
    LET i1 == IF body.text # Null THEN [item EXCEPT !.text = body.text[1]] ELSE item
    IN  [i1 EXCEPT !.completed = TRUE]

\* the assignments of PUT /api/tasks/:taskId/checklist/:itemId
applyItemUpdate(item, body) ==
    LET i1 == IF body.text # Null THEN [item EXCEPT !.text = body.text[1]] ELSE item
    IN  IF body.completed # Null THEN [i1 EXCEPT !.completed = body.completed[1]] ELSE i1

\* task.updatedAt is written before the item is looked up
UpdateItemTouchesFirst(taskId, itemId, body, d) ==
    /\ Arrive
    /\ UNCHANGED accountCalls
    /\ LET task == findTaskById(taskId, tasks)
           k == IF task = Null THEN 0 ELSE findIndex(task[1].checklist, itemId)
       IN  /\ req' = [op |-> "updateItem", id |-> taskId, item |-> itemId, body |-> body]
           /\ IF task = Null
              THEN /\ res' = Respond(404, 0)
                   /\ UNCHANGED store
              ELSE IF k = 0
              THEN /\ tasks' = mutate(taskId, [task[1] EXCEPT !.updatedAt = Now(d)])
                   /\ clock' = Now(d)
                   /\ res' = Respond(404, 0)
                   /\ UNCHANGED <<nextId, cachedTestAccount, inflight>>
              ELSE /\ tasks' = mutate(taskId, [task[1] EXCEPT
                                   !.checklist[k] = applyItemUpdate(@, body),
                                   !.updatedAt = Now(d)])
                   /\ clock' = Now(d)
                   /\ res' = Respond(200, itemId)
                   /\ UNCHANGED <<nextId, cachedTestAccount, inflight>>
    /\ Observe

\* PUT /api/tasks/:taskId/checklist/:itemId
UpdateItem(taskId, itemId, body, d) ==
    /\ Arrive
    /\ UNCHANGED accountCalls
    /\ LET task == findTaskById(taskId, tasks)
           k == IF task = Null THEN 0 ELSE findIndex(task[1].checklist, itemId)
       IN  /\ req' = [op |-> "updateItem", id |-> taskId, item |-> itemId, body |-> body]
           /\ IF task = Null \/ k = 0
              THEN /\ res' = Respond(404, 0)
                   /\ UNCHANGED store
              ELSE /\ tasks' = mutate(taskId, [task[1] EXCEPT
                                   !.checklist[k] = applyItemUpdate(@, body),
                                   !.updatedAt = Now(d)])
                   /\ clock' = Now(d)
                   /\ res' = Respond(200, itemId)
                   /\ UNCHANGED <<nextId, cachedTestAccount, inflight>>
    /\ Observe

\* DELETE /api/tasks/:taskId/checklist/:itemId
RemoveItem(taskId, itemId, d) ==
    /\ Arrive
    /\ UNCHANGED accountCalls
    /\ LET task == findTaskById(taskId, tasks)
           itemIndex == IF task = Null THEN 0 ELSE findIndex(task[1].checklist, itemId)
       IN  /\ req' = [op |-> "removeItem", id |-> taskId, item |-> itemId]
           /\ IF task = Null \/ itemIndex = 0
              THEN /\ res' = Respond(404, 0)
                   /\ UNCHANGED store
              ELSE /\ tasks' = mutate(taskId, [task[1] EXCEPT
                                   !.checklist = splice(@, itemIndex),
                                   !.updatedAt = Now(d)])
                   /\ clock' = Now(d)
                   /\ res' = Respond(200, 0)
                   /\ UNCHANGED <<nextId, cachedTestAccount, inflight>>
    /\ Observe

\* task.emailReminder = {sentAt, to, previewUrl}; task.updatedAt = new Date()
recordReminder(task, to, sentAt, updatedAt) ==
    [task EXCEPT !.emailReminder = <<[sentAt |-> sentAt, to |-> to,
                                      previewUrl |-> "url"]>>,
                 !.updatedAt = updatedAt]

\* the reminder is written before the first await
EmailStartRecordsEarly(id, to) ==
    /\ Arrive
    /\ LET task == findTaskById(id, tasks)
       IN  /\ req' = [op |-> "email", id |-> id, to |-> to,
                      await |-> "none", settled |-> "none"]
           /\ IF task = Null
              THEN /\ res' = Respond(404, 0)
                   /\ UNCHANGED <<store, accountCalls>>
              ELSE IF FalsyStr(to)
              THEN /\ res' = Respond(400, 0)
                   /\ UNCHANGED <<store, accountCalls>>
              ELSE /\ Len(inflight) < MaxInflight
                   /\ accountCalls' = IF cachedTestAccount = Null
                                      THEN [accountCalls EXCEPT !.made = @ + 1]
                                      ELSE accountCalls
                   /\ inflight' = Append(inflight,
                          [id |-> id, to |-> to[1],
                           pc |-> IF cachedTestAccount = Null THEN "createTestAccount"
                                  ELSE "sendMail"])
                   /\ tasks' = mutate(id, recordReminder(task[1], to[1], clock, clock))
                   /\ res' = Respond(0, 0)
                   /\ UNCHANGED <<clock, nextId, cachedTestAccount>>
    /\ Observe

\* POST /api/tasks/:id/email, up to its first await
EmailStart(id, to) ==
    /\ Arrive
    /\ LET task == findTaskById(id, tasks)
       IN  /\ req' = [op |-> "email", id |-> id, to |-> to,
                      await |-> "none", settled |-> "none"]
           /\ IF task = Null
              THEN /\ res' = Respond(404, 0)
                   /\ UNCHANGED <<store, accountCalls>>
              ELSE IF FalsyStr(to)
              THEN /\ res' = Respond(400, 0)
                   /\ UNCHANGED <<store, accountCalls>>
              ELSE /\ Len(inflight) < MaxInflight
                   /\ accountCalls' = IF cachedTestAccount = Null
                                      THEN [accountCalls EXCEPT !.made = @ + 1]
                                      ELSE accountCalls
                   /\ inflight' = Append(inflight,
                          [id |-> id, to |-> to[1],
                           pc |-> IF cachedTestAccount = Null THEN "createTestAccount"
                                  ELSE "sendMail"])
                   /\ res' = Respond(0, 0)
                   /\ UNCHANGED <<tasks, clock, nextId, cachedTestAccount>>
    /\ Observe

\* await nodemailer.createTestAccount() settles for the k-th suspended request
EmailAccount(k, ok) ==
    /\ Wake
    /\ /\ k \in 1..Len(inflight)
       /\ inflight[k].pc = "createTestAccount"
       /\ req' = [op |-> "email", id |-> inflight[k].id, to |-> <<inflight[k].to>>,
                  await |-> "createTestAccount",
                  settled |-> IF ok THEN "resolved" ELSE "rejected"]
       /\ IF ok
          THEN /\ cachedTestAccount' = <<"account">>
               /\ inflight' = [inflight EXCEPT ![k].pc = "sendMail"]
               /\ res' = Respond(0, 0)
          ELSE /\ inflight' = splice(inflight, k)
               /\ res' = Respond(500, 0)
               /\ UNCHANGED cachedTestAccount
       /\ accountCalls' = IF ok THEN accountCalls
                          ELSE [accountCalls EXCEPT !.rejected = TRUE]
       /\ UNCHANGED <<tasks, clock, nextId>>
    /\ chain' = NoChain

\* the reminder is written before the outcome of sendMail is known
EmailSendRecordsBeforeAwait(k, ok, tick) ==
    /\ Wake
    /\ UNCHANGED accountCalls
    /\ /\ k \in 1..Len(inflight)
       /\ inflight[k].pc = "sendMail"
       /\ req' = [op |-> "email", id |-> inflight[k].id, to |-> <<inflight[k].to>>,
                  await |-> "sendMail",
                  settled |-> IF ok THEN "resolved" ELSE "rejected"]
       /\ inflight' = splice(inflight, k)
       /\ LET sentAt == Now(Tick(tick, 1))
              updatedAt == Later(sentAt, Tick(tick, 2))
              task == findTaskById(inflight[k].id, tasks)
          IN  /\ tasks' = IF task = Null THEN tasks
                          ELSE mutate(inflight[k].id,
                                   recordReminder(task[1], inflight[k].to, sentAt, updatedAt))
              /\ clock' = updatedAt
              /\ res' = IF ok THEN Respond(200, 0) ELSE Respond(500, 0)
       /\ UNCHANGED <<nextId, cachedTestAccount>>
    /\ chain' = NoChain

\* a task that left the forest is put back at top level with its reminder
EmailSendReinserts(k, ok, tick) ==
    /\ Wake
    /\ UNCHANGED accountCalls
    /\ /\ k \in 1..Len(inflight)
       /\ inflight[k].pc = "sendMail"
       /\ req' = [op |-> "email", id |-> inflight[k].id, to |-> <<inflight[k].to>>,
                  await |-> "sendMail",
                  settled |-> IF ok THEN "resolved" ELSE "rejected"]
       /\ inflight' = splice(inflight, k)
       /\ IF ok
          THEN LET sentAt == Now(Tick(tick, 1))
                   updatedAt == Later(sentAt, Tick(tick, 2))
                   task == findTaskById(inflight[k].id, tasks)
               IN  /\ tasks' = IF task = Null
                               THEN Append(tasks,
                                        recordReminder(
                                            newTaskOf(inflight[k].id, <<"A">>, Null, 0, 0),
                                            inflight[k].to, sentAt, updatedAt))
                               ELSE mutate(inflight[k].id,
                                        recordReminder(task[1], inflight[k].to,
                                                       sentAt, updatedAt))
                   /\ clock' = updatedAt
                   /\ res' = Respond(200, 0)
          ELSE /\ res' = Respond(500, 0)
               /\ UNCHANGED <<tasks, clock>>
       /\ UNCHANGED <<nextId, cachedTestAccount>>
    /\ chain' = NoChain

\* await transporter.sendMail(mailOptions) settles for the k-th suspended
\* request. The handler holds the task object it looked up before the await:
\* it writes to that object and answers 200 whether or not the object is
\* still in the forest.
EmailSend(k, ok, tick) ==
    /\ Wake
    /\ UNCHANGED accountCalls
    /\ /\ k \in 1..Len(inflight)
       /\ inflight[k].pc = "sendMail"
       /\ req' = [op |-> "email", id |-> inflight[k].id, to |-> <<inflight[k].to>>,
                  await |-> "sendMail",
                  settled |-> IF ok THEN "resolved" ELSE "rejected"]
       /\ inflight' = splice(inflight, k)
       /\ IF ok
          THEN LET sentAt == Now(Tick(tick, 1))
                   updatedAt == Later(sentAt, Tick(tick, 2))
                   task == findTaskById(inflight[k].id, tasks)
               IN  /\ tasks' = IF task = Null THEN tasks
                               ELSE mutate(inflight[k].id,
                                        recordReminder(task[1], inflight[k].to,
                                                       sentAt, updatedAt))
                   /\ clock' = updatedAt
                   /\ res' = Respond(200, 0)
          ELSE /\ res' = Respond(500, 0)
               /\ UNCHANGED <<tasks, clock>>
       /\ UNCHANGED <<nextId, cachedTestAccount>>
    /\ chain' = NoChain

UpdateBody(title, description, completed, checklist, emailReminder) ==
    [title |-> title, description |-> description, completed |-> completed,
     checklist |-> checklist, emailReminder |-> emailReminder]

\* request bodies of PUT /api/tasks/:id: no field, one field, or all of them
UpdateBodies ==
    {UpdateBody(Null, Null, Null, Null, Null)}
    \cup {UpdateBody(<<t>>, Null, Null, Null, Null) : t \in Titles}
    \cup {UpdateBody(Null, <<"d">>, Null, Null, Null)}
    \cup {UpdateBody(Null, Null, <<c>>, Null, Null) : c \in BOOLEAN}
    \cup {UpdateBody(Null, Null, Null, <<c>>, Null) : c \in ClientChecklists}
    \cup {UpdateBody(Null, Null, Null, Null, <<e>>) : e \in ClientReminders}
    \cup {UpdateBody(<<"A">>, <<"d">>, <<TRUE>>, <<<<>>>>, <<Null>>)}

ItemBodies == {[text |-> Null, completed |-> Null],
               [text |-> <<"y">>, completed |-> Null],
               [text |-> Null, completed |-> <<TRUE>>]}

Next ==
    \/ \E id \in ClientIds : Get(id)
    \/ \E title \in Opt(Titles), description \in Opt({"d"}),
          parentId \in ParentIds, tick \in 0..3 :
          Create(title, description, parentId, tick)
    \/ \E id \in ClientIds, body \in UpdateBodies, d \in 0..1 : Update(id, body, d)
    \/ \E id \in ClientIds : Remove(id)
    \/ \E id \in ClientIds, text \in Opt({"", "x"}), d \in 0..1 : AddItem(id, text, d)
    \/ \E taskId \in ClientIds, itemId \in ClientIds, body \in ItemBodies, d \in 0..1 :
          UpdateItem(taskId, itemId, body, d)
    \/ \E taskId \in ClientIds, itemId \in ClientIds, d \in 0..1 :
          RemoveItem(taskId, itemId, d)
    \/ \E id \in ClientIds, to \in Opt(Recipients) : EmailStart(id, to)
    \/ \E k \in 1..MaxInflight, ok \in BOOLEAN : EmailAccount(k, ok)
    \/ \E k \in 1..MaxInflight, ok \in BOOLEAN, tick \in 0..2 : EmailSend(k, ok, tick)

Spec == Init /\ [][Next]_vars

\* ---- findTaskById and removeTaskById on any task list ----
\* The two helpers take the list to search as an argument; these are lists
\* of up to three levels whose tasks may repeat an id.
DupIds == {1, 2}
TaskShape(id, children) ==
    [newTaskOf(id, <<"A">>, Null, 0, 0) EXCEPT !.children = children]
ListsOf(S, n) == UNION {[1..m -> S] : m \in 0..n}
Leaves == {TaskShape(id, <<>>) : id \in DupIds}
Mids == {TaskShape(id, children) : id \in DupIds, children \in ListsOf(Leaves, MaxSiblings)}
Tops == {TaskShape(id, children) : id \in DupIds,
                                  children \in {<<>>} \cup {<<m>> : m \in Mids}}
Forests == {<<>>} \cup {<<t>> : t \in Tops} \cup {<<t, u>> : t \in Tops, u \in Tops}

\* one request is served on the list drawn
TraversalInit ==
    /\ tasks \in Forests
    /\ clock = 0
    /\ nextId = MaxIds + 1
    /\ cachedTestAccount = Null
    /\ inflight = <<>>
    /\ req = [op |-> "none"]
    /\ res = Respond(0, 0)
    /\ before = <<>>
    /\ nreq = MaxReq - 1
    /\ chain = NoChain
    /\ accountCalls = NoCalls
    /\ progressPercent = Null

TraversalNext ==
    \/ \E id \in ClientIds : Get(id)
    \/ \E id \in ClientIds : Remove(id)

TraversalSpec == TraversalInit /\ [][TraversalNext]_vars

\* ---- the page (app.js): progress of a checklist ----
\* progressPercent is the number the page last computed, as the fraction
\* num/den; den = 0 is the result of a division by zero.
Fraction(num, den) == [num |-> num, den |-> den]

\* task.checklist.filter(item => item.completed)
filterCompleted(checklist) == SelectSeq(checklist, LAMBDA item : item.completed)

\* the division is made whatever the total
progressUnguarded(checklist) ==
    LET checklistTotal == Len(checklist)
        checklistCompleted == Len(filterCompleted(checklist))
    IN  Fraction(checklistCompleted * 100, checklistTotal)

\* checklistTotal > 0 ? (checklistCompleted / checklistTotal) * 100 : 0
progress(checklist) ==
    LET checklistTotal == Len(checklist)
        checklistCompleted == Len(filterCompleted(checklist))
    IN  IF checklistTotal > 0
        THEN Fraction(checklistCompleted * 100, checklistTotal)
        ELSE Fraction(0, 1)

\* the checklists a task may carry when the page renders it
RenderedItems == {[checklistItemOf(1, <<"x">>) EXCEPT !.completed = c] : c \in BOOLEAN}
RenderedChecklists == UNION {[1..n -> RenderedItems] : n \in 0..MaxItems}

ProgressInit ==
    /\ tasks \in {<<[newTaskOf(1, <<"A">>, Null, 0, 0) EXCEPT !.checklist = checklist]>>
                   : checklist \in RenderedChecklists}
    /\ clock = 0
    /\ nextId = MaxIds + 1
    /\ cachedTestAccount = Null
    /\ inflight = <<>>
    /\ req = [op |-> "none"]
    /\ res = Respond(0, 0)
    /\ before = <<>>
    /\ nreq = 0
    /\ chain = NoChain
    /\ accountCalls = NoCalls
    /\ progressPercent = Null

\* createTaskCard(task): the progress bar of the task card
createTaskCard(k) ==
    /\ progressPercent' = <<progress(tasks[k].checklist)>>
    /\ UNCHANGED <<store, req, res, before, nreq, chain, accountCalls>>

\* renderChecklist(task): the progress bar of the checklist section
renderChecklist(k) ==
    /\ progressPercent' = <<progress(tasks[k].checklist)>>
    /\ UNCHANGED <<store, req, res, before, nreq, chain, accountCalls>>

ProgressNext ==
    \/ \E k \in 1..Len(tasks) : createTaskCard(k)
    \/ \E k \in 1..Len(tasks) : renderChecklist(k)

ProgressSpec == ProgressInit /\ [][ProgressNext]_vars



\* the tasks of a forest, depth first: a task, then its children in list order
RECURSIVE Flatten(_)
Flatten(taskList) ==
    IF taskList = <<>> THEN <<>>
    ELSE <<Head(taskList)>> \o Flatten(Head(taskList).children) \o Flatten(Tail(taskList))

RECURSIVE ItemIdsOf(_)
ItemIdsOf(flat) ==
    IF flat = <<>> THEN <<>>
    ELSE [k \in 1..Len(Head(flat).checklist) |-> Head(flat).checklist[k].id]
         \o ItemIdsOf(Tail(flat))

AllIds(forest) ==
    [k \in 1..Len(Flatten(forest)) |-> Flatten(forest)[k].id] \o ItemIdsOf(Flatten(forest))

Distinct(seq) == \A i, j \in 1..Len(seq) : i # j => seq[i] # seq[j]

InForest(id, forest) == findTaskById(id, forest) # Null
TaskOf(id, forest) == findTaskById(id, forest)[1]
SubtreeIds(task) == {Flatten(<<task>>)[k].id : k \in 1..Len(Flatten(<<task>>))}

\* the ids of the tasks on the way from the top-level list down to the task id
RECURSIVE idsAlong(_, _)
idsAlong(taskList, path) ==
    IF path = <<>> THEN {}
    ELSE {taskList[path[1]].id} \cup idsAlong(taskList[path[1]].children, Tail(path))
SelfAndAncestors(id, forest) == idsAlong(forest, findPath(id, forest))

\* the forest with the children and the updatedAt of the task pid blanked
RECURSIVE Mask(_, _)
Mask(taskList, pid) ==
    [k \in 1..Len(taskList) |->
        IF taskList[k].id = pid
        THEN [taskList[k] EXCEPT !.children = <<>>, !.updatedAt = 0]
        ELSE [taskList[k] EXCEPT !.children = Mask(@, pid)]]

EmptyOrAbsent(text) == text = Null \/ text = <<"">>
Created == req.op = "create" /\ res.status = 201
Removed == req.op = "remove" /\ res.status = 200

\* C1: every id in the forest, of a task or of a checklist item, is unique
\* across the whole forest in every reachable state.
C1_IdsGloballyUnique == Distinct(AllIds(tasks))

\* C2: findById of a task just created returns that task, and a task that was
\* in the forest stays findable, as the same task, across every step that is
\* not a successful remove of the task itself or of one of its ancestors.
C2_FindByIdStable ==
    /\ Created => /\ InForest(res.out, tasks)
                  /\ ~InForest(res.out, before)
                  /\ TaskOf(res.out, tasks).id = res.out
                  /\ TaskOf(res.out, tasks).title = req.title[1]
    /\ \A id \in 1..MaxIds :
          (InForest(id, before) /\ ~(Removed /\ req.id \in SelfAndAncestors(id, before)))
          => /\ InForest(id, tasks)
             /\ TaskOf(id, tasks).id = id
             /\ TaskOf(id, tasks).createdAt = TaskOf(id, before).createdAt

C2_Witness ==
    /\ Removed
    /\ \E id \in 1..MaxIds : InForest(id, tasks) /\ Len(findPath(id, tasks)) >= 2

\* C3: after a successful remove of T neither T nor any descendant of T, at
\* any depth, is reachable by findById.
C3_RemoveTakesSubtree ==
    Removed => \A d \in SubtreeIds(TaskOf(req.id, before)) : ~InForest(d, tasks)

C3_Witness ==
    /\ Removed
    /\ \E c \in 1..Len(TaskOf(req.id, before).children) :
          Len(TaskOf(req.id, before).children[c].children) > 0

\* C4: a remove of an id in the forest reports found; the same remove repeated
\* right after reports not-found; a remove that reports not-found leaves the
\* forest as it was and answers 404, not an error.
C4_RemoveTwice ==
    [][/\ (req'.op = "remove" /\ nreq' = nreq + 1 /\ InForest(req'.id, tasks))
              => res'.status = 200
       /\ (Removed /\ req'.op = "remove" /\ req'.id = req.id /\ nreq' = nreq + 1)
              => res'.status = 404
       /\ (req'.op = "remove" /\ nreq' = nreq + 1 /\ res'.status # 200)
              => (res'.status = 404 /\ tasks' = tasks)]_vars

C4_Witness ==
    /\ nreq = 3 /\ nextId = 2 /\ before = <<>> /\ tasks = <<>>
    /\ req.op = "remove" /\ req.id = 1 /\ res.status = 404

\* C5: create with an empty or absent title answers 400 and changes nothing,
\* also when the parentId names a task.
C5_CreateWithoutTitle ==
    (req.op = "create" /\ EmptyOrAbsent(req.title))
        => (res.status = 400 /\ tasks = before)

C5_Witness ==
    /\ req.op = "create" /\ req.title = <<"">> /\ res.status = 400
    /\ req.parentId # Null /\ InForest(req.parentId[1], before)

\* C6 as stated: create with a parentId in the body that names no task
\* answers 404 and changes nothing.
C6_UnknownParentFails ==
    (req.op = "create" /\ ~EmptyOrAbsent(req.title)
       /\ req.parentId # Null /\ ~InForest(req.parentId[1], before))
        => (res.status = 404 /\ tasks = before)

\* C6 amended: create with a non-empty parentId that names no task answers
\* 404 and changes nothing; an empty parentId counts as none given.
C6_UnknownTruthyParentFails ==
    (req.op = "create" /\ ~EmptyOrAbsent(req.title)
       /\ req.parentId # Null /\ req.parentId[1] # 0
       /\ ~InForest(req.parentId[1], before))
        => (res.status = 404 /\ tasks = before)

C6_Witness ==
    /\ req.op = "create" /\ req.title = <<"A">> /\ res.status = 404
    /\ req.parentId # Null /\ req.parentId[1] # 0
    /\ ~InForest(req.parentId[1], before)
    /\ before # <<>> /\ tasks = before

\* C7: create under a task P at any depth appends the new task as the last
\* child of P and of no other list; findById finds it; nothing but P's
\* children and P's updatedAt changes.
C7_CreateUnderParent ==
    (Created /\ req.parentId # Null /\ req.parentId[1] # 0)
        => LET pid == req.parentId[1]
               old == TaskOf(pid, before).children
               new == TaskOf(pid, tasks).children
           IN  /\ Len(new) = Len(old) + 1
               /\ SubSeq(new, 1, Len(old)) = old
               /\ new[Len(new)].id = res.out
               /\ findTaskById(res.out, tasks) = <<new[Len(new)]>>
               /\ Mask(tasks, pid) = Mask(before, pid)

C7_Witness ==
    /\ Created /\ req.parentId # Null /\ req.parentId[1] # 0
    /\ Len(findPath(req.parentId[1], before)) >= 2

\* C8: every task has updatedAt >= createdAt, and no step lowers the
\* updatedAt of a task that stays in the forest.
C8_UpdatedAtMonotone ==
    /\ \A k \in 1..Len(Flatten(tasks)) :
          Flatten(tasks)[k].updatedAt >= Flatten(tasks)[k].createdAt
    /\ \A id \in 1..MaxIds :
          (InForest(id, before) /\ InForest(id, tasks))
          => TaskOf(id, tasks).updatedAt >= TaskOf(id, before).updatedAt

C8_Witness ==
    \E id \in 1..MaxIds :
        /\ InForest(id, before) /\ InForest(id, tasks)
        /\ TaskOf(id, tasks).updatedAt > TaskOf(id, before).updatedAt
        /\ TaskOf(id, before).updatedAt > TaskOf(id, before).createdAt

CreateThenComplete ==
    /\ Created /\ nreq' = nreq + 1
    /\ req'.op = "update" /\ req'.id = res.out /\ req'.body.completed = <<TRUE>>

\* C9 as stated: after create and then update(id, {completed: true}) the task
\* is completed and its updatedAt is strictly greater than its createdAt.
C9_CompletedStrictlyLater ==
    [][CreateThenComplete
          => /\ TaskOf(res.out, tasks').completed = TRUE
             /\ TaskOf(res.out, tasks').updatedAt > TaskOf(res.out, tasks').createdAt]_vars

\* C9 amended: after create and then update(id, {completed: true}) the task
\* is completed and its updatedAt is the clock reading of the update, which is
\* not less than its createdAt.
C9_CompletedNotEarlier ==
    [][CreateThenComplete
          => /\ res'.status = 200
             /\ TaskOf(res.out, tasks').completed = TRUE
             /\ TaskOf(res.out, tasks').updatedAt = clock'
             /\ TaskOf(res.out, tasks').updatedAt >= TaskOf(res.out, tasks').createdAt]_vars

C9_Witness ==
    /\ nreq = 2 /\ req.op = "update" /\ req.body.completed = <<TRUE>>
    /\ res.status = 200
    /\ TaskOf(req.id, tasks).completed
    /\ TaskOf(req.id, tasks).updatedAt = TaskOf(req.id, tasks).createdAt

RelayRejected == req.op = "email" /\ req.settled = "rejected"

\* C11: when the Mail Relay call of an email request fails (creating the test
\* account or sendMail rejects) the request ends with 500 and the forest is
\* as it was: the target keeps its emailReminder and its updatedAt, and no
\* other task changes.
C11_RelayFailureLeavesTask ==
    RelayRejected => (res.status = 500 /\ tasks = before)

C11_Witness ==
    /\ RelayRejected /\ req.await = "sendMail" /\ res.status = 500
    /\ InForest(req.id, tasks)
    /\ TaskOf(req.id, tasks).emailReminder # Null

Updated == req.op = "update" /\ res.status = 200
FieldAfter(given, prior) == IF given # Null THEN given[1] ELSE prior

\* C12: a successful update sets each of title, description, completed,
\* checklist, emailReminder that the body carries to the value given, leaves
\* each one the body does not carry (and id, createdAt, children) as it was,
\* and sets updatedAt to the clock reading of the call, also for an empty body.
C12_UpdateChangesGivenFields ==
    Updated =>
        LET old == TaskOf(req.id, before)
            new == TaskOf(req.id, tasks)
        IN  /\ new.title = FieldAfter(req.body.title, old.title)
            /\ new.description = FieldAfter(req.body.description, old.description)
            /\ new.completed = FieldAfter(req.body.completed, old.completed)
            /\ new.checklist = FieldAfter(req.body.checklist, old.checklist)
            /\ new.emailReminder = FieldAfter(req.body.emailReminder, old.emailReminder)
            /\ new.id = old.id /\ new.createdAt = old.createdAt
            /\ new.children = old.children
            /\ new.updatedAt = clock

C12_Witness ==
    /\ Updated /\ req.body = UpdateBody(Null, Null, Null, Null, Null)
    /\ TaskOf(req.id, tasks).updatedAt > TaskOf(req.id, before).updatedAt
    /\ TaskOf(req.id, tasks).title = TaskOf(req.id, before).title

\* the id of the task whose children list holds the task id, 0 at top level
RECURSIVE parentAlong(_, _, _)
parentAlong(taskList, path, above) ==
    IF Len(path) <= 1 THEN above
    ELSE parentAlong(taskList[path[1]].children, Tail(path), taskList[path[1]].id)
ParentIdOf(id, forest) == parentAlong(forest, findPath(id, forest), 0)

\* C13: a change of a task's own children list refreshes the task's
\* updatedAt: after a create under a parent, and after a remove of one of its
\* direct children, the parent's updatedAt is not older than the latest clock
\* reading.
C13_ParentRefreshedOnChildChange ==
    /\ (Created /\ req.parentId # Null /\ req.parentId[1] # 0)
           => TaskOf(req.parentId[1], tasks).updatedAt >= clock
    /\ (Removed /\ ParentIdOf(req.id, before) # 0)
           => TaskOf(ParentIdOf(req.id, before), tasks).updatedAt >= clock

\* C14: every task in the forest has a non-empty title in every reachable
\* state.
C14_TitlesNonEmpty ==
    \A k \in 1..Len(Flatten(tasks)) : Flatten(tasks)[k].title # ""

HasItem(checklist, itemId) == \E k \in 1..Len(checklist) : checklist[k].id = itemId
Without(checklist, k) == SubSeq(checklist, 1, k - 1) \o SubSeq(checklist, k + 1, Len(checklist))

C16_RemoveItem ==
    (req.op = "removeItem" /\ InForest(req.id, before))
        => LET old == TaskOf(req.id, before).checklist
               new == TaskOf(req.id, tasks).checklist
           IN  IF HasItem(old, req.item)
               THEN /\ res.status = 200
                    /\ Len(new) = Len(old) - 1
                    /\ \E k \in 1..Len(old) : old[k].id = req.item /\ new = Without(old, k)
               ELSE /\ res.status = 404
                    /\ new = old
                    /\ TaskOf(req.id, tasks).updatedAt = TaskOf(req.id, before).updatedAt

C16_Witness ==
    /\ req.op = "removeItem" /\ res.status = 200
    /\ Len(TaskOf(req.id, before).checklist) = 2
    /\ TaskOf(req.id, before).checklist[1].id = req.item
    /\ TaskOf(req.id, before).checklist[2].id # req.item

\* the forest with the checklist and the updatedAt of the task tid blanked
RECURSIVE MaskItems(_, _)
MaskItems(taskList, tid) ==
    [k \in 1..Len(taskList) |->
        IF taskList[k].id = tid
        THEN [taskList[k] EXCEPT !.checklist = <<>>, !.updatedAt = 0,
                                 !.children = MaskItems(@, tid)]
        ELSE [taskList[k] EXCEPT !.children = MaskItems(@, tid)]]

\* C17: updateItem answers 404 and changes nothing when the item id is not in
\* the checklist of the task named, also when another task's checklist holds
\* an item of that id; otherwise it answers 200, sets the text and completed
\* the body carries on that one item, keeps the item's id and every other
\* item, and refreshes the updatedAt of the owning task and of no other.
C17_UpdateItem ==
    (req.op = "updateItem" /\ InForest(req.id, before))
        => LET old == TaskOf(req.id, before).checklist
               new == TaskOf(req.id, tasks).checklist
           IN  IF ~HasItem(old, req.item)
               THEN res.status = 404 /\ tasks = before
               ELSE /\ res.status = 200
                    /\ Len(new) = Len(old)
                    /\ \E k \in 1..Len(old) :
                          /\ old[k].id = req.item
                          /\ new[k].id = old[k].id
                          /\ new[k].text = FieldAfter(req.body.text, old[k].text)
                          /\ new[k].completed = FieldAfter(req.body.completed, old[k].completed)
                          /\ \A j \in 1..Len(old) : j # k => new[j] = old[j]
                    /\ TaskOf(req.id, tasks).updatedAt = clock
                    /\ MaskItems(tasks, req.id) = MaskItems(before, req.id)

C17_Witness ==
    /\ req.op = "updateItem" /\ res.status = 404 /\ InForest(req.id, before)
    /\ \E k \in 1..Len(Flatten(before)) :
          /\ Flatten(before)[k].id # req.id
          /\ HasItem(Flatten(before)[k].checklist, req.item)

\* C18: a request that answers 404 leaves the forest, every updatedAt
\* included, exactly as it was before the request.
C18_NotFoundChangesNothing == res.status = 404 => tasks = before

C18_Witness ==
    /\ res.status = 404 /\ req.op = "removeItem" /\ InForest(req.id, before)
    /\ Len(TaskOf(req.id, before).checklist) >= 1

\* the forest with the emailReminder and the updatedAt of the task tid blanked
RECURSIVE MaskReminder(_, _)
MaskReminder(taskList, tid) ==
    [k \in 1..Len(taskList) |->
        IF taskList[k].id = tid
        THEN [taskList[k] EXCEPT !.emailReminder = Null, !.updatedAt = 0,
                                 !.children = MaskReminder(@, tid)]
        ELSE [taskList[k] EXCEPT !.children = MaskReminder(@, tid)]]

Suspended == req.op = "email" /\ res.status = 0
Sent == req.op = "email" /\ res.status = 200

\* C19: an email request writes nothing while it is suspended at the Mail
\* Relay (the steps of other requests in between are not held back); it
\* answers 200 only after sendMail resolved, and that step changes nothing
\* in the forest but the emailReminder and the updatedAt of the target, which
\* become the record of this send and the clock reading.
C19_ReminderAfterRelay ==
    /\ Suspended => tasks = before
    /\ Sent => /\ req.await = "sendMail" /\ req.settled = "resolved"
               /\ MaskReminder(tasks, req.id) = MaskReminder(before, req.id)
               /\ InForest(req.id, before)
                     => /\ TaskOf(req.id, tasks).emailReminder # Null
                        /\ TaskOf(req.id, tasks).emailReminder[1].to = req.to[1]
                        /\ TaskOf(req.id, tasks).emailReminder[1].sentAt <= clock
                        /\ TaskOf(req.id, tasks).updatedAt = clock

\* a request on the target ran to completion while the send was in flight
C19_Witness ==
    /\ Len(inflight) >= 1 /\ inflight[1].pc = "sendMail"
    /\ req.op = "update" /\ res.status = 200 /\ req.id = inflight[1].id
    /\ tasks # before
    /\ TaskOf(req.id, tasks).emailReminder = Null

\* C20: when sendMail has resolved, the request answers 404 if the task id
\* no longer names a task of the forest, and answers 200 only with the
\* reminder set on a task that findById finds.
C20_RecordFailsWhenTaskGone ==
    (req.op = "email" /\ req.await = "sendMail" /\ req.settled = "resolved")
        => IF InForest(req.id, before)
           THEN /\ res.status = 200
                /\ InForest(req.id, tasks)
                /\ TaskOf(req.id, tasks).emailReminder # Null
           ELSE res.status = 404

\* the shape of a forest: the id and createdAt of every task, and the lists
\* the tasks sit in
RECURSIVE Skeleton(_)
Skeleton(taskList) ==
    [k \in 1..Len(taskList) |->
        [id |-> taskList[k].id, createdAt |-> taskList[k].createdAt,
         children |-> Skeleton(taskList[k].children)]]

\* C21: update, the checklist operations and the email request leave the
\* top-level list, every children list and every task's id and createdAt as
\* they were; and no operation at all changes the createdAt of a task that
\* stays in the forest.
C21_StructureOnlyByCreateRemove ==
    /\ req.op \in {"get", "update", "addItem", "updateItem", "removeItem", "email"}
          => Skeleton(tasks) = Skeleton(before)
    /\ \A id \in 1..MaxIds :
          (InForest(id, before) /\ InForest(id, tasks))
          => /\ TaskOf(id, tasks).id = id
             /\ TaskOf(id, tasks).createdAt = TaskOf(id, before).createdAt

C21_Witness ==
    /\ Updated /\ req.body = UpdateBody(<<"A">>, <<"d">>, <<TRUE>>, <<<<>>>>, <<Null>>)
    /\ Len(TaskOf(req.id, tasks).children) >= 1
    /\ TaskOf(req.id, tasks).updatedAt > TaskOf(req.id, tasks).createdAt

TaskIds(forest) == [k \in 1..Len(Flatten(forest)) |-> Flatten(forest)[k].id]

\* C22: no two tasks of the forest share an id, and the id of a task just
\* created is none of the ids issued before it (the ids below it, whether
\* their tasks or items are still in the forest or not).
C22_TaskIdsFresh ==
    /\ Distinct(TaskIds(tasks))
    /\ \A k \in 1..Len(AllIds(tasks)) : AllIds(tasks)[k] < nextId
    /\ Created => /\ res.out = nextId - 1
                  /\ \A k \in 1..Len(AllIds(before)) : AllIds(before)[k] < res.out

C22_Witness ==
    /\ Created /\ res.out = 3 /\ Len(AllIds(tasks)) = 1
    /\ before = <<>>

\* C25: the checklist and email handlers look the task up before they
\* validate the body, so an unknown task id answers 404 whatever the text or
\* the recipient; create validates first, so a missing title answers 400
\* whatever the parentId.
C25_ResolveBeforeValidate ==
    /\ (req.op = "addItem" /\ ~InForest(req.id, before)) => res.status = 404
    /\ (req.op = "email" /\ req.await = "none" /\ ~InForest(req.id, before))
           => res.status = 404
    /\ (req.op = "create" /\ EmptyOrAbsent(req.title)) => res.status = 400

C25_Witness ==
    /\ req.op = "addItem" /\ EmptyOrAbsent(req.text) /\ res.status = 404
    /\ ~InForest(req.id, before) /\ before # <<>>

\* C26: the task a successful create returns has completed = false, an empty
\* checklist, no children, no emailReminder, and createdAt equal to updatedAt.
C26_CreatedTaskFresh ==
    Created => LET t == TaskOf(res.out, tasks)
               IN  /\ t.completed = FALSE
                   /\ t.checklist = <<>>
                   /\ t.children = <<>>
                   /\ t.emailReminder = Null
                   /\ t.createdAt = t.updatedAt

\* the forest with the children of the task pid blanked
RECURSIVE MaskChildren(_, _)
MaskChildren(taskList, pid) ==
    [k \in 1..Len(taskList) |->
        IF taskList[k].id = pid
        THEN [taskList[k] EXCEPT !.children = <<>>]
        ELSE [taskList[k] EXCEPT !.children = MaskChildren(@, pid)]]

\* C27: a successful remove of T takes exactly the element T out of the one
\* list that held it, the other elements of that list keeping their order,
\* and leaves every task outside T's subtree, the parent's own fields
\* included, as it was.
C27_RemoveFrame ==
    Removed =>
        LET p == ParentIdOf(req.id, before)
        IN  IF p = 0
            THEN \E k \in 1..Len(before) :
                    before[k].id = req.id /\ tasks = Without(before, k)
            ELSE /\ \E k \in 1..Len(TaskOf(p, before).children) :
                       /\ TaskOf(p, before).children[k].id = req.id
                       /\ TaskOf(p, tasks).children = Without(TaskOf(p, before).children, k)
                 /\ MaskChildren(tasks, p) = MaskChildren(before, p)

C27_Witness ==
    /\ Removed /\ ParentIdOf(req.id, before) # 0
    /\ Len(TaskOf(ParentIdOf(req.id, before), before).children) = 2
    /\ TaskOf(ParentIdOf(req.id, before), before).children[1].id = req.id

\* C28: a task id enters the forest only as the id of the task a create has
\* just made, so an id that a remove took out never comes back; an email
\* request that completes after its task was removed leaves the forest as
\* it is.
C28_RemovedStaysRemoved ==
    /\ \A id \in 1..MaxIds :
          (~InForest(id, before) /\ InForest(id, tasks))
          => (Created /\ res.out = id /\ id = nextId - 1)
    /\ (Sent /\ ~InForest(req.id, before)) => tasks = before

C28_Witness ==
    /\ Sent /\ ~InForest(req.id, before)
    /\ tasks # <<>> /\ tasks = before

\* the list without the element at the place path
RECURSIVE exciseAt(_, _)
exciseAt(taskList, path) ==
    IF Len(path) = 1 THEN Without(taskList, path[1])
    ELSE [taskList EXCEPT ![path[1]].children = exciseAt(@, Tail(path))]

\* the first task, in depth-first pre-order, that carries the id
RECURSIVE firstOf(_, _)
firstOf(id, flat) ==
    IF flat = <<>> THEN Null
    ELSE IF Head(flat).id = id THEN <<Head(flat)>> ELSE firstOf(id, Tail(flat))

\* C24: on any task list, also one whose tasks repeat an id, findTaskById
\* returns the first task of that id in depth-first pre-order, removeTaskById
\* takes out exactly the task at that place, and it reports found exactly
\* when findTaskById finds a task.
C24_SameTraversal ==
    /\ req.op \in {"get", "remove"}
          => /\ findTaskById(req.id, before) = firstOf(req.id, Flatten(before))
             /\ (findPath(req.id, before) = <<>>) = (findTaskById(req.id, before) = Null)
    /\ req.op = "get" => (res.status = 200) = (firstOf(req.id, Flatten(before)) # Null)
    /\ req.op = "remove"
          => /\ (res.status = 200) = (firstOf(req.id, Flatten(before)) # Null)
             /\ tasks = IF findTaskById(req.id, before) = Null THEN before
                        ELSE exciseAt(before, findPath(req.id, before))

C24_Witness ==
    /\ Removed
    /\ Len(findPath(req.id, before)) = 2
    /\ InForest(req.id, tasks)
    /\ Len(before) = 2 /\ before[2].id = req.id

CompletedCount(checklist) ==
    Cardinality({k \in 1..Len(checklist) : checklist[k].completed})

\* C23: the progress the page shows for a task is determined by the task's
\* checklist: 0, with no division, for an empty checklist; otherwise
\* completed/total*100, which lies between 0 and 100, is 50 for 2 of 4, and
\* is 100 exactly when every item is completed.
C23_Progress ==
    progressPercent # Null =>
        LET checklist == tasks[1].checklist
            total == Len(checklist)
            done == CompletedCount(checklist)
            p == progressPercent[1]
        IN  /\ p.den > 0
            /\ total = 0 => p = Fraction(0, 1)
            /\ total > 0 => /\ p.num * total = done * 100 * p.den
                            /\ (p.num = 100 * p.den) = (done = total)
            /\ 0 <= p.num /\ p.num <= 100 * p.den
            /\ (total = 4 /\ done = 2) => p.num = 50 * p.den

C23_Witness ==
    /\ progressPercent # Null
    /\ Len(tasks[1].checklist) = 4 /\ CompletedCount(tasks[1].checklist) = 2
    /\ progressPercent[1].num = 50 * progressPercent[1].den

\* C29: as long as no call of createTestAccount has rejected, at most one
\* call is made, however the email requests interleave; and a request that
\* finds the cached account goes straight to sendMail.
C29_AccountCreatedOnce ==
    /\ ~accountCalls.rejected => accountCalls.made <= 1
    /\ (Suspended /\ req.await = "none" /\ cachedTestAccount # Null)
           => inflight[Len(inflight)].pc = "sendMail"
====
